---- MODULE Spec2Model ----
(***************************************************************************)
(* Model of least_squares_utils.py: the three plotting entry points        *)
(* plot_flights_scatter_data, plot_best_fit_line and plot_least_squares_fit *)
(* acting on a matplotlib axis that is shared between calls.               *)
(*                                                                         *)
(* Numbers are exact rationals <<n, d>> in lowest terms with d > 0; the    *)
(* pair <<0, 0>> stands for the IEEE NaN that numpy produces for 0/0.      *)
(* An axis is the sequence of the artists drawn on it, oldest first.       *)
(* Every axis method call is one atomic step (one bytecode-level call      *)
(* under the interpreter lock); the arithmetic between two axis calls      *)
(* touches locals only and is folded into the step that follows it.        *)
(***************************************************************************)
EXTENDS Integers, Sequences, FiniteSets, TLC

VARIABLES samples, axis, axisProps, frame, ncalls, budget

vars == <<samples, axis, axisProps, frame, ncalls, budget>>

\* ------------------------------------------------------------- bounds

\* Largest number of samples in an enumerated sample set.
MaxLen == 2
\* Largest number of calls the sequential caller makes.
MaxCalls == 2
\* Largest number of samples in an enumerated sample set of the two
\* concurrent callers.
MaxLenConc == 2

Threads == {1, 2}

\* ---------------------------------------------------------- rationals

Abs(k) == IF k < 0 THEN -k ELSE k

RECURSIVE GCD(_, _)
GCD(a, b) == IF b = 0 THEN a ELSE GCD(b, a % b)

NaN == <<0, 0>>

IsNaN(r) == r[2] = 0

\* n/d in lowest terms with a positive denominator; x/0 is NaN.
Norm(n, d) ==
    IF d = 0 THEN NaN
    ELSE LET g == GCD(Abs(n), Abs(d))
             s == IF d < 0 THEN -1 ELSE 1
         IN  <<(s * n) \div g, (s * d) \div g>>

R(k) == <<k, 1>>

RAdd(p, q) == IF IsNaN(p) \/ IsNaN(q) THEN NaN
              ELSE Norm(p[1] * q[2] + q[1] * p[2], p[2] * q[2])

RSub(p, q) == IF IsNaN(p) \/ IsNaN(q) THEN NaN
              ELSE Norm(p[1] * q[2] - q[1] * p[2], p[2] * q[2])

RMul(p, q) == IF IsNaN(p) \/ IsNaN(q) THEN NaN
              ELSE Norm(p[1] * q[1], p[2] * q[2])

RDiv(p, q) == IF IsNaN(p) \/ IsNaN(q) THEN NaN
              ELSE Norm(p[1] * q[2], p[2] * q[1])

\* p <= q on finite rationals; every comparison with NaN is false.
RLe(p, q) == ~IsNaN(p) /\ ~IsNaN(q) /\ p[1] * q[2] <= q[1] * p[2]

RSq(p) == RMul(p, p)

\* ------------------------------------------------------ program inputs

\* The default candidate line of plot_best_fit_line.
DefaultSlope == 20
DefaultIntercept == 50

\* The right end of the drawn line, np.array([0, 12.5]).
XRight == <<25, 2>>

\* f"{v:.2f}": v rounded to hundredths, ties to even; nan stays nan.
Fmt2(v) ==
    IF IsNaN(v) THEN NaN
    ELSE LET n == v[1] * 100
             d == v[2]
             fl == IF n >= 0 THEN n \div d ELSE -((-n + d - 1) \div d)
             rem2 == 2 * (n - fl * d)
             k == IF rem2 > d THEN fl + 1
                  ELSE IF rem2 < d THEN fl
                  ELSE IF fl % 2 = 0 THEN fl ELSE fl + 1
         IN  Norm(k, 100)

\* Column selections flights_df["flightTimeInHours"], flights_df["totalFare"].
RECURSIVE Column(_, _)
Column(s, c) == IF s = <<>> THEN <<>> ELSE <<s[1][c]>> \o Column(Tail(s), c)

\* The points the enumerated sample sets are built from, as (x, y).
Points == { <<R(0), R(1)>>, <<R(1), R(3)>>, <<R(2), R(2)>> }

\* The sample sets of the documented scenarios, and one of flights whose
\* prices scatter around a line (least-squares line: slope 35/2, intercept 55).
Scenarios ==
    { << <<R(1), R(70)>>, <<R(2), R(95)>>, <<R(3), R(105)>> >>,
      << <<R(1), R(70)>>, <<R(2), R(90)>>, <<R(3), R(110)>> >>,
      << <<R(0), R(50)>>, <<R(5), R(150)>>, <<R(10), R(250)>> >>,
      << <<R(1), R(100)>>, <<R(1), R(200)>> >>,
      << <<R(1), R(70)>>, <<R(2), R(90)>> >> }

SampleSets ==
    UNION { [1..n -> Points] : n \in 0..MaxLen } \cup Scenarios

SampleSetsConc ==
    UNION { [1..n -> Points] : n \in 0..MaxLenConc } \cup Scenarios

\* The candidate lines a caller passes to plot_best_fit_line.
CandidateLines ==
    { <<R(DefaultSlope), R(DefaultIntercept)>>, <<R(2), R(1)>> }

\* ------------------------------------------------------------ numpy

RECURSIVE RSum(_)
RSum(s) == IF s = <<>> THEN R(0) ELSE RAdd(s[1], RSum(Tail(s)))

RECURSIVE RDot(_, _)
RDot(s, u) ==
    IF s = <<>> THEN R(0) ELSE RAdd(RMul(s[1], u[1]), RDot(Tail(s), Tail(u)))

\* slope * x + intercept, scalar (line 87) or per element (lines 75, 125).
LineAt(slope, intercept, x) == RAdd(RMul(slope, x), intercept)

\* np.polyfit(x, y, 1): the outcomes of the least-squares solve of the
\* Vandermonde system [x 1] c = y, coefficients highest degree first.
\*  - an empty x is rejected with TypeError;
\*  - a full-rank system has the solution of the normal equations
\*    [Sxx Sx; Sx n] c = [Sxy; Sy];
\*  - identical x /= 0 make the system rank deficient: polyfit warns
\*    (RankWarning) and returns lstsq's minimum-norm solution of the
\*    column-scaled system, (Sy/(2 c n), Sy/(2 n));
\*  - x all zero make the column scale 0 and the scaled matrix 0/0 = NaN:
\*    depending on the LAPACK build lstsq raises LinAlgError or returns NaN.
Polyfit(x, y) ==
    LET n   == R(Len(x))
        Sx  == RSum(x)
        Sy  == RSum(y)
        Sxx == RDot(x, x)
        Sxy == RDot(x, y)
        det == RSub(RMul(n, Sxx), RMul(Sx, Sx))
    IN  IF Len(x) = 0
          THEN { [kind |-> "raise", exc |-> "TypeError", c |-> <<NaN, NaN>>] }
        ELSE IF Sxx = R(0)
          THEN { [kind |-> "raise", exc |-> "LinAlgError", c |-> <<NaN, NaN>>],
                 [kind |-> "ok", exc |-> "", c |-> <<NaN, NaN>>] }
        ELSE IF det = R(0)
          THEN { [kind |-> "ok", exc |-> "",
                  c |-> << RDiv(Sy, RMul(R(2), RMul(x[1], n))),
                           RDiv(Sy, RMul(R(2), n)) >>] }
        ELSE { [kind |-> "ok", exc |-> "",
                c |-> << RDiv(RSub(RMul(n, Sxy), RMul(Sx, Sy)), det),
                         RDiv(RSub(RMul(Sxx, Sy), RMul(Sx, Sxy)), det) >>] }

\* slope, intercept = np.polyfit(...)
UnpackSwapped(c) == [slope |-> c[2], intercept |-> c[1]]

Unpack(c) == [slope |-> c[1], intercept |-> c[2]]

\* ------------------------------------------------------- matplotlib

Artist(kind, id, x, y, label) ==
    [kind |-> kind, call |-> id, x |-> x, y |-> y, label |-> label]

\* axis.scatter(flight_duration, flight_price, ...)
AxisScatter(ax, el) == Append(ax, el)

\* axis.plot(x_values, best_fit_line, ...)
AxisPlotClearing(ax, el) == <<el>>

AxisPlotDropped(ax, el) == ax

AxisPlot(ax, el) == Append(ax, el)

\* axis.vlines(x, ymin=y, ymax=y_on_best_fit, ...)
AxisVlinesFirstOnly(ax, el) ==
    IF \E k \in 1..Len(ax) : ax[k].kind = "vlines" /\ ax[k].call = el.call
    THEN ax ELSE Append(ax, el)

AxisVlines(ax, el) == Append(ax, el)

\* axis.text(...)
AxisText(ax, el) == Append(ax, el)

NoProps == [xlabel |-> "", ylabel |-> "", xlim |-> <<>>, ylim |-> <<>>]

\* set_xlabel, set_ylabel, set_ylim(0, 365), set_xlim(0, 12.5)
StyledProps ==
    [xlabel |-> "Flight Time [Hours]", ylabel |-> "Flight Price",
     xlim |-> <<R(0), XRight>>, ylim |-> <<R(0), R(365)>>]

\* ------------------------------------------------------ the evaluator

\* total_squared_error = 0
InitialTotalOne == R(1)

InitialTotal == R(0)

\* One iteration of the error-check loop: the running total after (x, y).
LoopBodyUnsquared(total, slope, intercept, p) ==
    RAdd(total, RSub(LineAt(slope, intercept, p[1]), p[2]))

LoopBody(total, slope, intercept, p) ==
    RAdd(total, RSq(RSub(LineAt(slope, intercept, p[1]), p[2])))

\* The whole error-check loop over samples s[i..], from running total.
RECURSIVE ErrorLoop(_, _, _, _, _)
ErrorLoop(s, i, total, slope, intercept) ==
    IF i > Len(s) THEN total
    ELSE ErrorLoop(s, i + 1, LoopBody(total, slope, intercept, s[i]),
                   slope, intercept)

\* ------------------------------------------------------------ state

NoResult == [kind |-> "none", value |-> R(0), exc |-> "", own |-> <<>>]

\* A caller's activation record: the operation, its arguments and locals,
\* where it stands, and what its last call returned or raised.
IdleFrame ==
    [op |-> "none", pc |-> "idle", id |-> 0,
     slope |-> R(0), intercept |-> R(0),
     error_check |-> FALSE, show |-> FALSE, given |-> TRUE,
     i |-> 0, total |-> R(0), result |-> NoResult]

CanCall(t) == frame[t].pc \in {"idle", "done"} /\ budget[t] > 0

\* One caller making up to MaxCalls calls, one after the other.
Init ==
    /\ samples \in SampleSets
    /\ axis = <<>>
    /\ axisProps = NoProps
    /\ frame = [t \in Threads |-> IdleFrame]
    /\ ncalls = 0
    /\ budget = [t \in Threads |-> IF t = 1 THEN MaxCalls ELSE 0]

\* Two callers, each making one call, on the same sample set and axis.
InitConc ==
    /\ samples \in SampleSetsConc
    /\ axis = <<>>
    /\ axisProps = NoProps
    /\ frame = [t \in Threads |-> IdleFrame]
    /\ ncalls = 0
    /\ budget = [t \in Threads |-> 1]

Enter(t, f) ==
    /\ frame' = [frame EXCEPT ![t] = f]
    /\ ncalls' = ncalls + 1
    /\ budget' = [budget EXCEPT ![t] = @ - 1]

\* ------------------------------------------ plot_flights_scatter_data

\* Lines 21-36: select the columns, create an axis when none is given,
\* scatter the data on it.
CallScatter(t, given) ==
    /\ CanCall(t)
    /\ LET id == ncalls + 1
           el == Artist("scatter", id, Column(samples, 1), Column(samples, 2),
                        "Flight data")
       IN  /\ axis' = IF given THEN AxisScatter(axis, el) ELSE axis
           /\ Enter(t, [IdleFrame EXCEPT
                  !.op = "scatter", !.pc = "sc_style", !.id = id,
                  !.given = given,
                  !.result = [NoResult EXCEPT
                      !.own = IF given THEN <<>> ELSE AxisScatter(<<>>, el)]])
    /\ UNCHANGED <<samples, axisProps>>

\* Lines 39-48: labels, tick size, limits; return the axis.
ScatterStyle(t) ==
    /\ frame[t].pc = "sc_style"
    /\ axisProps' = IF frame[t].given THEN StyledProps ELSE axisProps
    /\ frame' = [frame EXCEPT ![t].pc = "done", ![t].result.kind = "axis"]
    /\ UNCHANGED <<samples, axis, ncalls, budget>>

\* ------------------------------------------------- plot_best_fit_line

\* Lines 74-83: draw the candidate line, zero the total, enter the loop
\* when error_check is set.
CallBestFit(t, line, error_check, show) ==
    /\ CanCall(t)
    /\ LET id == ncalls + 1
           el == Artist("line", id, <<R(0), XRight>>,
                        <<LineAt(line[1], line[2], R(0)),
                          LineAt(line[1], line[2], XRight)>>,
                        "Best fit line")
       IN  /\ axis' = AxisPlot(axis, el)
           /\ Enter(t, [IdleFrame EXCEPT
                  !.op = "best_fit", !.id = id,
                  !.pc = IF error_check /\ Len(samples) >= 1
                         THEN "bf_loop" ELSE "bf_text",
                  !.slope = line[1], !.intercept = line[2],
                  !.error_check = error_check, !.show = show,
                  !.i = 1, !.total = InitialTotal])
    /\ UNCHANGED <<samples, axisProps>>

\* Lines 85-91: one iteration: add the squared offset, draw the offset.
BestFitLoop(t) ==
    /\ frame[t].pc = "bf_loop"
    /\ LET f == frame[t]
           p == samples[f.i]
           y_on_best_fit == LineAt(f.slope, f.intercept, p[1])
       IN  /\ axis' = AxisVlines(axis,
                  Artist("vlines", f.id, <<p[1]>>, <<p[2], y_on_best_fit>>, ""))
           /\ frame' = [frame EXCEPT
                  ![t].total = LoopBody(f.total, f.slope, f.intercept, p),
                  ![t].i = f.i + 1,
                  ![t].pc = IF f.i + 1 > Len(samples)
                            THEN "bf_text" ELSE "bf_loop"]
    /\ UNCHANGED <<samples, axisProps, ncalls, budget>>

\* Lines 94-98: the optional text, then return the total.
BestFitReturn(t) ==
    /\ frame[t].pc = "bf_text"
    /\ LET f == frame[t]
       IN  /\ axis' = IF f.show
                      THEN AxisText(axis,
                             Artist("text", f.id, <<Norm(5, 100), Norm(95, 100)>>,
                                    <<Fmt2(f.total)>>, "Sum of squared errors: "))
                      ELSE axis
           /\ frame' = [frame EXCEPT
                  ![t].pc = "done",
                  ![t].result = [NoResult EXCEPT
                      !.kind = "total", !.value = f.total]]
    /\ UNCHANGED <<samples, axisProps, ncalls, budget>>

\* --------------------------------------------- plot_least_squares_fit

\* Lines 117-128: fit; an exception of polyfit ends the call, otherwise
\* the fitted line is drawn.
CallLsq(t, show) ==
    /\ CanCall(t)
    /\ \E o \in Polyfit(Column(samples, 1), Column(samples, 2)) :
         LET id  == ncalls + 1
             fit == Unpack(o.c)
             el  == Artist("line", id, <<R(0), XRight>>,
                           <<LineAt(fit.slope, fit.intercept, R(0)),
                             LineAt(fit.slope, fit.intercept, XRight)>>,
                           "Least Squares Fit")
         IN  IF o.kind = "raise"
             THEN /\ axis' = axis
                  /\ Enter(t, [IdleFrame EXCEPT
                         !.op = "lsq", !.pc = "done", !.id = id, !.show = show,
                         !.result = [NoResult EXCEPT
                             !.kind = "raise", !.exc = o.exc]])
             ELSE /\ axis' = AxisPlot(axis, el)
                  /\ Enter(t, [IdleFrame EXCEPT
                         !.op = "lsq", !.pc = "lsq_text", !.id = id,
                         !.show = show,
                         !.slope = fit.slope, !.intercept = fit.intercept])
    /\ UNCHANGED <<samples, axisProps>>

\* Lines 131-135: the optional equation text, then return the axis.
LsqReturn(t) ==
    /\ frame[t].pc = "lsq_text"
    /\ LET f == frame[t]
       IN  /\ axis' = IF f.show
                      THEN AxisText(axis,
                             Artist("text", f.id, <<Norm(5, 100), Norm(9, 10)>>,
                                    <<Fmt2(f.slope), Fmt2(f.intercept)>>,
                                    "y = {slope:.2f}x + {intercept:.2f}"))
                      ELSE axis
           /\ frame' = [frame EXCEPT
                  ![t].pc = "done", ![t].result.kind = "axis"]
    /\ UNCHANGED <<samples, axisProps, ncalls, budget>>

\* -------------------------------------------------------------- spec

Next ==
    \E t \in Threads :
        \/ \E given \in BOOLEAN : CallScatter(t, given)
        \/ ScatterStyle(t)
        \/ \E line \in CandidateLines, error_check \in BOOLEAN, show \in BOOLEAN :
               CallBestFit(t, line, error_check, show)
        \/ BestFitLoop(t)
        \/ BestFitReturn(t)
        \/ \E show \in BOOLEAN : CallLsq(t, show)
        \/ LsqReturn(t)

Spec == Init /\ [][Next]_vars

SpecConc == InitConc /\ [][Next]_vars

\* --------------------------------------------- reference definitions

\* Sum over the first n samples of s of (slope*x + intercept - y)^2.
RECURSIVE SumSq(_, _, _, _)
SumSq(s, n, slope, intercept) ==
    IF n = 0 THEN R(0)
    ELSE RAdd(SumSq(s, n - 1, slope, intercept),
              RSq(RSub(RAdd(RMul(slope, s[n][1]), intercept), s[n][2])))

OnLine(p, slope, intercept) == p[2] = RAdd(RMul(slope, p[1]), intercept)

AllSameX(s) == \A j, k \in 1..Len(s) : s[j][1] = s[k][1]

\* Sigma over the samples of x, y, x*y or x*x.
RECURSIVE Sigma(_, _, _)
Sigma(s, n, what) ==
    IF n = 0 THEN R(0)
    ELSE RAdd(Sigma(s, n - 1, what),
              CASE what = "x"  -> s[n][1]
                [] what = "y"  -> s[n][2]
                [] what = "xy" -> RMul(s[n][1], s[n][2])
                [] what = "xx" -> RMul(s[n][1], s[n][1]))

ClosedFormSlope(s) ==
    LET n == R(Len(s))
    IN  RDiv(RSub(RMul(n, Sigma(s, Len(s), "xy")),
                  RMul(Sigma(s, Len(s), "x"), Sigma(s, Len(s), "y"))),
             RSub(RMul(n, Sigma(s, Len(s), "xx")),
                  RMul(Sigma(s, Len(s), "x"), Sigma(s, Len(s), "x"))))

ClosedFormIntercept(s, slope) ==
    RDiv(RSub(Sigma(s, Len(s), "y"), RMul(slope, Sigma(s, Len(s), "x"))),
         R(Len(s)))

\* The artists of call id on the shared axis, in axis order.
OwnArtists(id) ==
    LET Mine(el) == el.call = id IN SelectSeq(axis, Mine)

OwnVlines(id) ==
    LET Mine(el) == el.call = id /\ el.kind = "vlines" IN SelectSeq(axis, Mine)

Returned(t, op) == frame[t].op = op /\ frame[t].pc = "done"

\* plot_least_squares_fit of t holds a fitted line (polyfit did not raise).
Fitted(t) ==
    /\ frame[t].op = "lsq"
    /\ frame[t].pc \in {"lsq_text", "done"}
    /\ frame[t].result.kind # "raise"

\* ------------------------------------------------------------- C1

\* C1: for every sample set, line and flag values, the value returned by
\* plot_best_fit_line is the sum over the samples of
\* (slope*x + intercept - y)^2.
C1_ReturnsSumForAllFlags ==
    \A t \in Threads :
        Returned(t, "best_fit") =>
            /\ frame[t].result.kind = "total"
            /\ frame[t].result.value =
                   SumSq(samples, Len(samples), frame[t].slope, frame[t].intercept)

\* ------------------------------------------------------------- C2

\* C2: the total squared error returned by the evaluator is >= 0 and is 0
\* if and only if every sample lies on the line.
C2_ZeroIffOnLine ==
    \A t \in Threads :
        Returned(t, "best_fit") =>
            /\ RLe(R(0), frame[t].result.value)
            /\ frame[t].result.value = R(0) <=>
                   \A k \in 1..Len(samples) :
                       OnLine(samples[k], frame[t].slope, frame[t].intercept)

\* ------------------------------------------------------------- C3

\* C3: when every sample has the same x, plot_least_squares_fit fails with
\* DegenerateInput and neither returns nor draws a line.
C3_DegenerateFails ==
    \A t \in Threads :
        (frame[t].op = "lsq" /\ samples # <<>> /\ AllSameX(samples)) =>
            /\ frame[t].pc = "done"
            /\ frame[t].result.kind = "raise"
            /\ frame[t].result.exc = "DegenerateInput"
            /\ OwnArtists(frame[t].id) = <<>>

\* ------------------------------------------------------------- C4

\* C4: for n >= 2 samples whose x are not all identical, the fitted line has
\* slope (n Sxy - Sx Sy) / (n Sxx - Sx^2) and intercept (Sy - slope Sx) / n,
\* and the call does not raise; the two scenario sample sets give slope 20
\* and intercept 50.
C4_ClosedForm ==
    \A t \in Threads :
        (frame[t].op = "lsq" /\ Len(samples) >= 2 /\ ~AllSameX(samples)) =>
            /\ Fitted(t)
            /\ frame[t].slope = ClosedFormSlope(samples)
            /\ frame[t].intercept = ClosedFormIntercept(samples, frame[t].slope)
            /\ samples \in
                   { << <<R(1), R(70)>>, <<R(2), R(90)>>, <<R(3), R(110)>> >>,
                     << <<R(0), R(50)>>, <<R(5), R(150)>>, <<R(10), R(250)>> >> }
                 => frame[t].slope = R(20) /\ frame[t].intercept = R(50)

\* A fit over samples with distinct x has returned a line whose slope is no
\* integer.
C4_Witness ==
    \E t \in Threads :
        /\ Fitted(t) /\ frame[t].pc = "done"
        /\ Len(samples) >= 2 /\ ~AllSameX(samples)
        /\ frame[t].slope[2] # 1

\* ------------------------------------------------------------- C5

\* Candidate lines: half-integer slopes and intercepts around the small
\* sample sets, half-integer ones around the scenarios' line (20, 50), and a
\* quarter-step grid around the line (slope, intercept) itself.
Grid(slope, intercept) ==
    { <<Norm(a, 2), Norm(b, 2)>> : a \in -1 .. 5, b \in -1 .. 5 }
    \cup { <<Norm(a, 2), Norm(b, 2)>> : a \in 39 .. 41, b \in 99 .. 101 }
    \cup { <<RAdd(slope, Norm(a, 4)), RAdd(intercept, Norm(b, 4))>> :
              a \in -2 .. 2, b \in -2 .. 2 }

\* C5: with at least 2 distinct x values, the evaluator's total for the
\* fitted line is <= its total for every candidate line of the grid.
C5_FitIsOptimalOnGrid ==
    \A t \in Threads :
        (Fitted(t) /\ frame[t].pc = "lsq_text" /\ ~AllSameX(samples)) =>
            LET fitted == ErrorLoop(samples, 1, InitialTotal,
                                    frame[t].slope, frame[t].intercept)
            IN  \A c \in Grid(frame[t].slope, frame[t].intercept) :
                    RLe(fitted, ErrorLoop(samples, 1, InitialTotal, c[1], c[2]))

\* A fit of samples that are not collinear: its total is positive and
\* strictly below that of a grid candidate.
C5_Witness ==
    \E t \in Threads :
        /\ Fitted(t) /\ frame[t].pc = "lsq_text"
        /\ ~AllSameX(samples) /\ Len(samples) >= 3
        /\ LET e == ErrorLoop(samples, 1, InitialTotal,
                              frame[t].slope, frame[t].intercept)
           IN  /\ e # R(0)
               /\ \E c \in Grid(frame[t].slope, frame[t].intercept) :
                      ~RLe(ErrorLoop(samples, 1, InitialTotal, c[1], c[2]), e)

\* ------------------------------------------------------------- C6

\* C6 as stated: with an empty sample set the evaluator (error_check on)
\* fails with InvalidInput instead of returning a total.
C6_EmptyRaisesInvalidInput ==
    \A t \in Threads :
        (samples = <<>> /\ Returned(t, "best_fit") /\ frame[t].error_check) =>
            /\ frame[t].result.kind = "raise"
            /\ frame[t].result.exc = "InvalidInput"

\* C6 as amended: with an empty sample set the evaluator (error_check on)
\* raises nothing, returns the total 0 and draws no offset indicator.
C6_EmptyReturnsZero ==
    \A t \in Threads :
        (samples = <<>> /\ Returned(t, "best_fit") /\ frame[t].error_check) =>
            /\ frame[t].result.kind = "total"
            /\ frame[t].result.value = R(0)
            /\ OwnVlines(frame[t].id) = <<>>

\* An error-checking call on the empty sample set has returned, its line drawn.
C6_Witness ==
    \E t \in Threads :
        /\ samples = <<>> /\ Returned(t, "best_fit") /\ frame[t].error_check
        /\ Len(OwnArtists(frame[t].id)) >= 1

\* ------------------------------------------------------------- C7

\* Thread t takes a step of plot_best_fit_line or plot_least_squares_fit.
CoreStep(t) ==
    /\ frame'[t] # frame[t]
    /\ frame'[t].op \in {"best_fit", "lsq"}

\* C7 as stated: a call of plot_best_fit_line or plot_least_squares_fit
\* leaves the sample set and the axis it was given unchanged.
C7_CallsArePure ==
    [][\A t \in Threads :
          CoreStep(t) => samples' = samples /\ axis' = axis /\ axisProps' = axisProps
      ]_vars

\* C7 as amended: such a call leaves the sample set and the axis' labels and
\* limits unchanged, but it writes the axis: entering the call appends the
\* call's line to the axis, unless polyfit raises.
C7_OnlyTheAxisIsWritten ==
    [][\A t \in Threads :
          CoreStep(t) =>
              /\ samples' = samples
              /\ axisProps' = axisProps
              /\ (frame[t].pc \in {"idle", "done"}
                    /\ frame'[t].result.kind # "raise") =>
                     /\ Len(axis') = Len(axis) + 1
                     /\ SubSeq(axis', 1, Len(axis)) = axis
                     /\ axis'[Len(axis')].kind = "line"
                     /\ axis'[Len(axis')].call = frame'[t].id
      ]_vars

\* Both core operations have returned on a non-empty sample set and the
\* axis holds the line of each.
C7_Witness ==
    /\ samples # <<>>
    /\ Returned(1, "lsq")
    /\ frame[1].result.kind = "axis"
    /\ \E j, k \in 1..Len(axis) :
           /\ axis[j].kind = "line" /\ axis[j].label = "Best fit line"
           /\ axis[k].kind = "line" /\ axis[k].label = "Least Squares Fit"

\* ------------------------------------------------------------- C8

InProgress(t) == frame[t].pc \notin {"idle", "done"}

\* The total a plot_best_fit_line call with frame f returns when run alone.
AloneTotal(f) ==
    IF f.error_check THEN SumSq(samples, Len(samples), f.slope, f.intercept)
    ELSE R(0)

AloneLine(f, label) ==
    Artist("line", f.id, <<R(0), <<25, 2>>>>,
           << f.intercept, RAdd(RMul(f.slope, <<25, 2>>), f.intercept) >>, label)

\* The artists a call with frame f draws on the given axis when run alone.
AloneArtists(f) ==
    CASE f.op = "scatter" ->
           IF f.given
           THEN << Artist("scatter", f.id,
                          [k \in 1..Len(samples) |-> samples[k][1]],
                          [k \in 1..Len(samples) |-> samples[k][2]],
                          "Flight data") >>
           ELSE <<>>
      [] f.op = "best_fit" ->
           << AloneLine(f, "Best fit line") >>
           \o (IF f.error_check
               THEN [k \in 1..Len(samples) |->
                       Artist("vlines", f.id, <<samples[k][1]>>,
                              << samples[k][2],
                                 RAdd(RMul(f.slope, samples[k][1]), f.intercept) >>,
                              "")]
               ELSE <<>>)
           \o (IF f.show
               THEN << Artist("text", f.id, << <<1, 20>>, <<19, 20>> >>,
                              << Fmt2(AloneTotal(f)) >>,
                              "Sum of squared errors: ") >>
               ELSE <<>>)
      [] f.op = "lsq" ->
           IF f.result.kind = "raise" THEN <<>>
           ELSE << AloneLine(f, "Least Squares Fit") >>
                \o (IF f.show
                    THEN << Artist("text", f.id, << <<1, 20>>, <<9, 10>> >>,
                                   << Fmt2(f.slope), Fmt2(f.intercept) >>,
                                   "y = {slope:.2f}x + {intercept:.2f}") >>
                    ELSE <<>>)
      [] OTHER -> <<>>

\* C8 as stated: while two calls run concurrently on the same sample set and
\* axis, no object is written by both.
C8_ConcurrentCallsShareNothing ==
    \A t, u \in Threads :
        (t # u /\ InProgress(t) /\ InProgress(u)) =>
            ~(OwnArtists(frame[t].id) # <<>> /\ OwnArtists(frame[u].id) # <<>>)

\* C8 as amended: the two concurrent calls both write the shared axis, but in
\* every interleaving a returned call has drawn on it exactly the artists, in
\* the order, that it draws when run alone, plot_best_fit_line has returned
\* the total it returns when run alone, and the fitted line of a
\* plot_least_squares_fit call over >= 2 distinct x is the closed-form line.
C8_EachCallAsWhenAlone ==
    \A t \in Threads :
        frame[t].pc = "done" =>
            /\ OwnArtists(frame[t].id) = AloneArtists(frame[t])
            /\ frame[t].op = "best_fit" =>
                   /\ frame[t].result.kind = "total"
                   /\ frame[t].result.value = AloneTotal(frame[t])
            /\ (Fitted(t) /\ ~AllSameX(samples)) =>
                   frame[t].slope = ClosedFormSlope(samples)

\* Two error-checking calls have returned non-zero totals and their artists
\* lie interleaved on the axis.
C8_Witness ==
    /\ \A t \in Threads :
           /\ Returned(t, "best_fit") /\ frame[t].error_check
           /\ frame[t].result.value # R(0)
    /\ \E i, j, k \in 1..Len(axis) :
           /\ i < j /\ j < k
           /\ axis[i].call = axis[k].call
           /\ axis[i].call # axis[j].call

\* ------------------------------------------------------------- C9

\* C9: every step leaves the artists already on the axis in place and
\* unaltered, and adds at most one artist, after them, which belongs to the
\* latest call: the axis holds the artists of all calls in call order.
C9_AxisOnlyGrowsInCallOrder ==
    [][/\ Len(axis') \in {Len(axis), Len(axis) + 1}
       /\ SubSeq(axis', 1, Len(axis)) = axis
       /\ Len(axis') = Len(axis) + 1 =>
              /\ axis'[Len(axis')].call = ncalls'
              /\ \A k \in 1..Len(axis) : axis[k].call <= ncalls'
      ]_vars

\* After a scatter call and an error-checking call that shows its total, the
\* axis holds the scatter, the line, the offsets and the text, in that order.
C9_Witness ==
    /\ Returned(1, "best_fit")
    /\ Len(axis) >= 4
    /\ axis[1].kind = "scatter" /\ axis[1].call = 1
    /\ axis[2].kind = "line" /\ axis[2].call = 2
    /\ axis[3].kind = "vlines" /\ axis[3].call = 2
    /\ axis[Len(axis)].kind = "text" /\ axis[Len(axis)].call = 2

\* ------------------------------------------------------------ C10

RECURSIVE SumOfSquaredOffsets(_)
SumOfSquaredOffsets(v) ==
    IF v = <<>> THEN R(0)
    ELSE RAdd(RSq(RSub(v[1].y[2], v[1].y[1])), SumOfSquaredOffsets(Tail(v)))

\* C10: a returned plot_best_fit_line call with error_check has drawn one
\* offset indicator per sample, in sample order, at the sample's x, from the
\* sample's y to slope*x + intercept, and the squares of the drawn offsets
\* sum to the returned total; without error_check it has drawn none.
C10_OneOffsetPerSample ==
    \A t \in Threads :
        Returned(t, "best_fit") =>
            LET v == OwnVlines(frame[t].id)
            IN  IF frame[t].error_check
                THEN /\ Len(v) = Len(samples)
                     /\ \A k \in 1..Len(v) :
                            /\ v[k].x = <<samples[k][1]>>
                            /\ v[k].y = << samples[k][2],
                                           RAdd(RMul(frame[t].slope, samples[k][1]),
                                                frame[t].intercept) >>
                     /\ SumOfSquaredOffsets(v) = frame[t].result.value
                ELSE v = <<>>

\* An error-checking call over at least two samples off the line has returned.
C10_Witness ==
    \E t \in Threads :
        /\ Returned(t, "best_fit") /\ frame[t].error_check
        /\ Len(samples) >= 2
        /\ Len(OwnVlines(frame[t].id)) = Len(samples)
        /\ frame[t].result.value # R(0)
        /\ \A k \in 1..Len(samples) :
               ~OnLine(samples[k], frame[t].slope, frame[t].intercept)

====
